---------------------------- MODULE Spec2Model ----------------------------
(***************************************************************************)
(* Model of lf-parser.py: the codec between the binary .LF motion-control  *)
(* format (16-byte records followed by a 400-byte SysMem block) and its    *)
(* line-oriented text form.                                                *)
(*                                                                         *)
(* Representation.  A byte is an integer 0..255, a byte string a sequence  *)
(* of bytes.  A Python str is a sequence of one-character strings, so a    *)
(* text line is a tuple such as <<"F","F"," ","P","a","d">> and a document *)
(* is a sequence of lines.  A Python number (int or float) is carried as   *)
(* an integer count of thousandths together with a flag telling whether it *)
(* is a float; the floats of the model are the values with at most three   *)
(* decimals, and the float32 values are the eighths among them.  A Python  *)
(* exception is the result record [ok |-> FALSE].                          *)
(***************************************************************************)
EXTENDS Integers, Sequences, FiniteSets, TLC

(***************************************************************************)
(* Characters and strings                                                  *)
(***************************************************************************)
\* The concatenation of the sequences of ss.
RECURSIVE ConcatAll(_)
ConcatAll(ss) ==
    LET h == Len(ss) \div 2
    IN  IF Len(ss) = 0 THEN <<>>
        ELSE IF Len(ss) = 1 THEN ss[1]
        ELSE ConcatAll(SubSeq(ss, 1, h)) \o ConcatAll(SubSeq(ss, h + 1, Len(ss)))

Printable ==
    <<" ","!","\"","#","$","%","&","'","(",")","*","+",",","-",".","/","0","1","2","3","4","5","6","7","8","9",":",";","<","=",">","?","@","A","B","C","D","E","F","G","H","I","J","K","L","M","N","O","P","Q","R","S","T","U","V","W","X","Y","Z","[","\\","]","^","_","<grave>","a","b","c","d","e","f","g","h","i","j","k","l","m","n","o","p","q","r","s","t","u","v","w","x","y","z","{","|","}","~">>

\* (Printable lists the characters 32..126 in order; the grave accent, which
\* a TLA+ string cannot hold, is written "<grave>".)

\* bytes.decode("ascii", errors="ignore"): bytes above 127 are dropped;
\* TAB, LF, FF, CR and the printable range map to their character.
AsciiDecode(bs) ==
    LET Decode1(b) ==
            IF b >= 128 THEN <<>>
            ELSE IF b = 9 THEN <<"\t">>
            ELSE IF b = 10 THEN <<"\n">>
            ELSE IF b = 12 THEN <<"\f">>
            ELSE IF b = 13 THEN <<"\r">>
            ELSE <<Printable[b - 31]>>
    IN  ConcatAll([i \in 1..Len(bs) |-> Decode1(bs[i])])

\* str.encode("ascii", errors="ignore")
AsciiEncode(s) ==
    LET Encode1(c) ==
            IF c = "\t" THEN <<9>>
            ELSE IF c = "\n" THEN <<10>>
            ELSE IF c = "\f" THEN <<12>>
            ELSE IF c = "\r" THEN <<13>>
            ELSE IF \E i \in 1..Len(Printable) : Printable[i] = c
                 THEN <<31 + (CHOOSE i \in 1..Len(Printable) : Printable[i] = c)>>
            ELSE <<>>
    IN  ConcatAll([i \in 1..Len(s) |-> Encode1(s[i])])

\* The characters str.strip() and str.split() treat as whitespace.
IsSpace(c) == c \in {" ", "\t", "\n", "\r", "\f"}

\* The least and the greatest position of s holding a character that is
\* no whitespace (0 if there is none).
FirstNonSpace(s) ==
    IF \A i \in 1..Len(s) : IsSpace(s[i]) THEN 0
    ELSE CHOOSE i \in 1..Len(s) : ~IsSpace(s[i]) /\ \A j \in 1..(i - 1) : IsSpace(s[j])
LastNonSpace(s) ==
    IF \A i \in 1..Len(s) : IsSpace(s[i]) THEN 0
    ELSE CHOOSE i \in 1..Len(s) : ~IsSpace(s[i]) /\ \A j \in (i + 1)..Len(s) : IsSpace(s[j])

\* str.rstrip() and str.strip()
RStrip(s) == SubSeq(s, 1, LastNonSpace(s))
Strip(s) ==
    LET From(a) == IF a = 0 THEN <<>> ELSE SubSeq(s, a, LastNonSpace(s))
    IN  From(FirstNonSpace(s))

\* str.startswith(prefix)
StartsWith(s, prefix) ==
    Len(s) >= Len(prefix) /\ SubSeq(s, 1, Len(prefix)) = prefix

\* str.find(pat) + 1: the position of the first occurrence of pat in s, 0 if
\* there is none.
Find(s, pat) ==
    LET hits == {i \in 1..(Len(s) - Len(pat) + 1) :
                    (pat = <<>> \/ s[i] = pat[1]) /\ SubSeq(s, i, i + Len(pat) - 1) = pat}
    IN  IF hits = {} THEN 0 ELSE CHOOSE i \in hits : \A j \in hits : i <= j

\* pat in s
Contains(s, pat) == Find(s, pat) # 0

\* s.split(pat, 1)[1], for s containing pat
AfterFirst(s, pat) == SubSeq(s, Find(s, pat) + Len(pat), Len(s))

\* s.split(pat, 1)[0]
BeforeFirst(s, pat) ==
    LET Upto(p) == IF p = 0 THEN s ELSE SubSeq(s, 1, p - 1)
    IN  Upto(Find(s, pat))

\* str.split(): the maximal runs of non-whitespace characters, from the
\* positions where such a run starts and where it ends.
SplitWs(s) ==
    LET idx == [i \in 1..Len(s) |-> i]
        IsStart(i) == ~IsSpace(s[i]) /\ (i = 1 \/ IsSpace(s[i - 1]))
        IsEnd(i) == ~IsSpace(s[i]) /\ (i = Len(s) \/ IsSpace(s[i + 1]))
        Tokens(starts, ends) ==
            [k \in 1..Len(starts) |-> SubSeq(s, starts[k], ends[k])]
    IN  Tokens(SelectSeq(idx, IsStart), SelectSeq(idx, IsEnd))

\* " ".join(toks)
RECURSIVE JoinSp(_)
JoinSp(toks) ==
    IF toks = <<>> THEN <<>>
    ELSE IF Len(toks) = 1 THEN toks[1]
    ELSE toks[1] \o <<" ">> \o JoinSp(Tail(toks))

\* " " * n
Spaces(n) == [i \in 1..n |-> " "]

\* The pieces one written line falls into when the file is read back:
\* str.splitlines() ends a piece at "\n", "\r" and "\f" ("\r\n" counts once).
RECURSIVE SplitBreaks(_)
SplitBreaks(s) ==
    LET breaks == {i \in 1..Len(s) : s[i] \in {"\n", "\r", "\f"}}
        Skip(b) == IF s[b] = "\r" /\ b < Len(s) /\ s[b + 1] = "\n" THEN 2 ELSE 1
        At(b) == <<SubSeq(s, 1, b - 1)>> \o SplitBreaks(SubSeq(s, b + Skip(b), Len(s)))
    IN  IF breaks = {} THEN <<s>>
        ELSE At(CHOOSE i \in breaks : \A j \in breaks : i <= j)

\* The pieces of all written lines, in order.  The "\n" that joins two
\* elements completes a "\r" ending the first one into a single "\r\n".
FlattenSplit(ls) ==
    LET Merged(k) == k < Len(ls) /\ ls[k] # <<>> /\ ls[k][Len(ls[k])] = "\r"
        Kept(k, ps) == IF Merged(k) THEN SubSeq(ps, 1, Len(ps) - 1) ELSE ps
    IN  ConcatAll([k \in 1..Len(ls) |-> Kept(k, SplitBreaks(ls[k]))])

\* "\n".join(lines) written to the file, then read().splitlines(): every
\* line break inside an element starts a new line, and splitlines() drops
\* one empty piece at the very end of the file.
ReadLines(written) ==
    LET DropLast(all) ==
            IF all # <<>> /\ all[Len(all)] = <<>>
            THEN SubSeq(all, 1, Len(all) - 1) ELSE all
    IN  DropLast(FlattenSplit(written))

(***************************************************************************)
(* Numbers: parsing and formatting                                         *)
(***************************************************************************)
Digits == <<"0","1","2","3","4","5","6","7","8","9">>
HexChars == <<"0","1","2","3","4","5","6","7","8","9","A","B","C","D","E","F">>
HexLower == <<"0","1","2","3","4","5","6","7","8","9","a","b","c","d","e","f">>

DigitVal(c) == (CHOOSE i \in 1..10 : Digits[i] = c) - 1
IsHexDigit(c) == \E i \in 1..16 : HexChars[i] = c \/ HexLower[i] = c
HexDigitVal(c) == (CHOOSE i \in 1..16 : HexChars[i] = c \/ HexLower[i] = c) - 1

AllDigits(s) == s # <<>> /\ \A i \in 1..Len(s) : \E d \in 1..10 : Digits[d] = s[i]
AllHex(s) == s # <<>> /\ \A i \in 1..Len(s) : IsHexDigit(s[i])

RECURSIVE DigitsVal(_)
DigitsVal(s) ==
    IF s = <<>> THEN 0
    ELSE 10 * DigitsVal(SubSeq(s, 1, Len(s) - 1)) + DigitVal(s[Len(s)])

RECURSIVE HexDigitsVal(_)
HexDigitsVal(s) ==
    IF s = <<>> THEN 0
    ELSE 16 * HexDigitsVal(SubSeq(s, 1, Len(s) - 1)) + HexDigitVal(s[Len(s)])

RECURSIVE NatStr(_)
NatStr(n) ==
    IF n < 10 THEN <<Digits[n + 1]>> ELSE NatStr(n \div 10) \o <<Digits[(n % 10) + 1]>>

\* str(n) of an int
DecStr(n) == IF n < 0 THEN <<"-">> \o NatStr(-n) ELSE NatStr(n)

\* f"{b:02X}" and bytes.hex().upper()
Hex2(b) == <<HexChars[(b \div 16) + 1], HexChars[(b % 16) + 1]>>

HexOf(bs) == ConcatAll([i \in 1..Len(bs) |-> Hex2(bs[i])])

\* bytes.fromhex(s) for s without spaces: fails on an odd length or a
\* character that is no hex digit.
FromHex(s) ==
    IF Len(s) % 2 # 0 \/ \E i \in 1..Len(s) : ~IsHexDigit(s[i])
    THEN [ok |-> FALSE, v |-> <<>>]
    ELSE [ok |-> TRUE,
          v |-> [k \in 1..(Len(s) \div 2) |->
                    16 * HexDigitVal(s[2 * k - 1]) + HexDigitVal(s[2 * k])]]

Unsign(s) == IF s # <<>> /\ s[1] \in {"+", "-"} THEN Tail(s) ELSE s
SignOf(s) == IF s # <<>> /\ s[1] = "-" THEN -1 ELSE 1

\* int(tok): an optional sign and decimal digits.
PyInt(tok) ==
    LET Value(u) ==
            IF AllDigits(u) THEN [ok |-> TRUE, v |-> SignOf(tok) * DigitsVal(u)]
            ELSE [ok |-> FALSE, v |-> 0]
    IN  Value(Unsign(tok))

\* int(tok, 16): an optional sign, an optional 0x prefix and hex digits.
PyIntHex(tok) ==
    LET Value(d) ==
            IF AllHex(d) THEN [ok |-> TRUE, v |-> SignOf(tok) * HexDigitsVal(d)]
            ELSE [ok |-> FALSE, v |-> 0]
        Unprefixed(u) ==
            Value(IF Len(u) >= 2 /\ u[1] = "0" /\ u[2] \in {"x", "X"}
                  THEN SubSeq(u, 3, Len(u)) ELSE u)
    IN  Unprefixed(Unsign(tok))

\* A number: k is "fin" for a finite value of m thousandths, else "nan",
\* "inf" or "ninf"; f tells a float from an int.
Fin(isFloat, m) == [k |-> "fin", f |-> isFloat, m |-> m]
NonFin(kind) == [k |-> kind, f |-> TRUE, m |-> 0]

\* The thousandths of a fraction digit string (the digits after the third
\* are beyond the precision of the model and do not occur in its inputs).
FracVal(s) ==
    LET d(i) == IF i <= Len(s) THEN DigitVal(s[i]) ELSE 0
    IN  100 * d(1) + 10 * d(2) + d(3)

\* float(tok): an optional sign, then digits with an optional fraction, or
\* one of the spellings of a non-finite value.  (Exponent notation is not
\* among the tokens of the model.)
PyFloat(tok) ==
    LET sign == SignOf(tok)
        OkNum(ip, fp) == /\ (ip = <<>> \/ AllDigits(ip))
                         /\ (fp = <<>> \/ AllDigits(fp))
                         /\ (ip # <<>> \/ fp # <<>>)
        Value(u, ip, fp) ==
            IF u = <<"n","a","n">> THEN [ok |-> TRUE, v |-> NonFin("nan")]
            ELSE IF u = <<"i","n","f">>
                 THEN [ok |-> TRUE, v |-> NonFin(IF sign < 0 THEN "ninf" ELSE "inf")]
            ELSE IF OkNum(ip, fp)
                 THEN [ok |-> TRUE,
                       v |-> Fin(TRUE, sign * (1000 * DigitsVal(ip) + FracVal(fp)))]
            ELSE [ok |-> FALSE, v |-> Fin(TRUE, 0)]
        Parts(u, dot) ==
            Value(u, IF dot = 0 THEN u ELSE SubSeq(u, 1, dot - 1),
                     IF dot = 0 THEN <<>> ELSE SubSeq(u, dot + 1, Len(u)))
        Unsigned(u) == Parts(u, Find(u, <<".">>))
    IN  Unsigned(Unsign(tok))

\* The fraction digits of t thousandths (0 < t < 1000), trailing zeros off.
FracStr(t) ==
    IF t % 100 = 0 THEN <<Digits[(t \div 100) + 1]>>
    ELSE IF t % 10 = 0 THEN <<Digits[(t \div 100) + 1], Digits[((t \div 10) % 10) + 1]>>
    ELSE <<Digits[(t \div 100) + 1], Digits[((t \div 10) % 10) + 1], Digits[(t % 10) + 1]>>

Abs(n) == IF n < 0 THEN -n ELSE n

\* The decimal expansion of m thousandths with a fraction part.
DecimalStr(m) ==
    (IF m < 0 THEN <<"-">> ELSE <<>>) \o NatStr(Abs(m) \div 1000) \o <<".">>
    \o FracStr(Abs(m) % 1000)

\* str(x) of a float (the metadata display)
FloatStr(x) ==
    IF x.k = "nan" THEN <<"n","a","n">>
    ELSE IF x.k = "inf" THEN <<"i","n","f">>
    ELSE IF x.k = "ninf" THEN <<"-","i","n","f">>
    ELSE DecimalStr(x.m)

\* int(x): truncation towards zero; fails on a non-finite float.
PyToInt(x) ==
    IF x.k # "fin" THEN [ok |-> FALSE, v |-> 0]
    ELSE [ok |-> TRUE, v |-> IF x.m < 0 THEN -((-x.m) \div 1000) ELSE x.m \div 1000]

\* round(q / d) to the nearest integer, halves to the even one (d > 0).
RoundHalfEven(q, d) ==
    LET fl == q \div d
        r2 == 2 * (q % d)
    IN  IF r2 < d THEN fl
        ELSE IF r2 > d THEN fl + 1
        ELSE IF fl % 2 = 0 THEN fl ELSE fl + 1

\* int(round(x * scale)) for scale 100 or 1000; fails on a non-finite x.
PyRoundScaled(x, scale) ==
    IF x.k # "fin" THEN [ok |-> FALSE, v |-> 0]
    ELSE [ok |-> TRUE, v |-> RoundHalfEven(x.m, 1000 \div scale)]

(***************************************************************************)
(* struct: little-endian packing and unpacking                             *)
(***************************************************************************)
RECURSIVE Pow2(_)
Pow2(n) == IF n <= 0 THEN 1 ELSE 2 * Pow2(n - 1)

\* struct.unpack_from("<b")
I8Unpack(bs) == IF bs[1] >= 128 THEN bs[1] - 256 ELSE bs[1]

\* struct.unpack_from("<H")
U16Unpack(bs) == bs[1] + 256 * bs[2]

\* struct.unpack_from("<h")
I16Unpack(bs) == IF bs[2] >= 128 THEN U16Unpack(bs) - 65536 ELSE U16Unpack(bs)

\* struct.unpack_from("<i")
I32Unpack(bs) ==
    bs[1] + 256 * bs[2] + 65536 * bs[3]
    + 16777216 * (IF bs[4] >= 128 THEN bs[4] - 256 ELSE bs[4])

\* struct.pack_into("<H"): fails outside 0..65535.
U16Pack(v) ==
    IF v < 0 \/ v > 65535 THEN [ok |-> FALSE, v |-> <<>>]
    ELSE [ok |-> TRUE, v |-> <<v % 256, v \div 256>>]

\* struct.pack_into("<h"): fails outside -32768..32767.
I16Pack(v) ==
    IF v < -32768 \/ v > 32767 THEN [ok |-> FALSE, v |-> <<>>]
    ELSE [ok |-> TRUE, v |-> <<v % 256, (v \div 256) % 256>>]

\* struct.pack_into("<i"): the values of the model are all within 32 bits.
I32Pack(v) ==
    [ok |-> TRUE,
     v |-> <<v % 256, (v \div 256) % 256, (v \div 65536) % 256, (v \div 16777216) % 256>>]

\* bytearray item assignment: fails outside 0..255.
BytePack(v) ==
    IF v < 0 \/ v > 255 THEN [ok |-> FALSE, v |-> <<>>] ELSE [ok |-> TRUE, v |-> <<v>>]

\* struct.unpack_from("<f"): sign, exponent and mantissa of the IEEE-754
\* single in four little-endian bytes.  The finite values the model holds
\* exactly are zero and the normal numbers that are a whole number of
\* eighths below 2^20.
F32Unpack(bs) ==
    LET sign == bs[4] \div 128
        e == 2 * (bs[4] % 128) + bs[3] \div 128
        mant == 65536 * (bs[3] % 128) + 256 * bs[2] + bs[1]
        eighths == (8388608 + mant) \div Pow2(147 - e)
    IN  IF e = 255
        THEN NonFin(IF mant # 0 THEN "nan" ELSE IF sign = 1 THEN "ninf" ELSE "inf")
        ELSE IF e = 0 THEN Fin(TRUE, 0)
        ELSE Fin(TRUE, (IF sign = 1 THEN -1 ELSE 1) * 125 * eighths)

\* floor(log2(a)) for a >= 1
RECURSIVE Log2(_)
Log2(a) == IF a < 2 THEN 0 ELSE 1 + Log2(a \div 2)

\* struct.pack_into("<f"), for the eighths among the finite values.
F32Pack(x) ==
    LET a == Abs(x.m) \div 125
        p == Log2(a)
        e == p + 124
        mant == (a - Pow2(p)) * Pow2(23 - p)
        s == IF x.m < 0 THEN 128 ELSE 0
    IN  IF x.k = "nan" THEN <<0, 0, 192, 127>>
        ELSE IF x.k = "inf" THEN <<0, 0, 128, 127>>
        ELSE IF x.k = "ninf" THEN <<0, 0, 128, 255>>
        ELSE IF x.m = 0 THEN <<0, 0, 0, 0>>
        ELSE <<mant % 256, (mant \div 256) % 256,
               128 * (e % 2) + mant \div 65536, s + e \div 2>>

(***************************************************************************)
(* Records: decode                                                         *)
(***************************************************************************)
RAW_COLUMN == 60

RawMark == <<"#"," ","r","a","w",":">>
HdrDecoded == <<"=","=","=","=","="," ","S","y","s","M","e","m"," ","(","d","e","c","o","d","e","d"," ","f","i","e","l","d","s",")"," ","=","=","=","=","=">>
HdrDecodedPrefix == SubSeq(HdrDecoded, 1, 29)
HdrUnmapped == <<"=","=","=","=","="," ","S","y","s","M","e","m"," ","(","u","n","m","a","p","p","e","d"," ","r","a","w",")"," ","=","=","=","=","=">>
FiveEq == <<"=","=","=","=","=">>

\* CMD_ID_TO_NAME.get(cmd_id, f"UNKNOWN_{cmd_id}")
CmdName(cmd_id) ==
    CASE cmd_id = 0 -> <<"E","m","p","t","y">>
      [] cmd_id = 1 -> <<"L","i","n","e"," ","S","p","e","e","d">>
      [] cmd_id = 2 -> <<"L","i","n","e"," ","P","a","s","s","i","n","g">>
      [] cmd_id = 3 -> <<"A","r","c"," ","P","o","i","n","t">>
      [] cmd_id = 4 -> <<"L","i","n","e"," ","S","t","a","r","t">>
      [] cmd_id = 5 -> <<"D","i","s","p","e","n","s","e"," ","D","o","t">>
      [] cmd_id = 6 -> <<"O","u","t","p","u","t">>
      [] cmd_id = 7 -> <<"I","n","p","u","t">>
      [] cmd_id = 9 -> <<"W","a","i","t"," ","P","o","i","n","t">>
      [] cmd_id = 11 -> <<"E","n","d"," ","P","r","o","g","r","a","m">>
      [] cmd_id = 12 -> <<"L","i","n","e"," ","E","n","d">>
      [] cmd_id = 13 -> <<"S","t","e","p"," ","&"," ","R","e","p","e","a","t"," ","X">>
      [] cmd_id = 18 -> <<"S","t","o","p"," ","P","o","i","n","t">>
      [] cmd_id = 19 -> <<"E","m","p","t","y">>
      [] cmd_id = 20 -> <<"P","o","i","n","t"," ","D","i","s","p","e","n","s","e"," ","S","e","t","u","p">>
      [] cmd_id = 21 -> <<"L","i","n","e"," ","D","i","s","p","e","n","s","e"," ","S","e","t","u","p">>
      [] cmd_id = 22 -> <<"Z"," ","C","l","e","a","r","a","n","c","e">>
      [] cmd_id = 23 -> <<"D","i","s","p","e","n","s","e"," ","E","n","d"," ","S","e","t","u","p">>
      [] cmd_id = 27 -> <<"G","o","t","o"," ","A","d","d","r","e","s","s">>
      [] cmd_id = 28 -> <<"B","r","u","s","h"," ","A","r","e","a">>
      [] cmd_id = 29 -> <<"C","a","l","l"," ","S","u","b","r","o","u","t","i","n","e">>
      [] cmd_id = 30 -> <<"C","a","l","l"," ","P","r","o","g","r","a","m">>
      [] cmd_id = 31 -> <<"D","u","m","m","y"," ","P","o","i","n","t"," ","C","P">>
      [] cmd_id = 32 -> <<"S","t","e","p"," ","&"," ","R","e","p","e","a","t"," ","Y">>
      [] cmd_id = 33 -> <<"D","i","s","p","e","n","s","e"," ","O","N","/","O","F","F">>
      [] cmd_id = 35 -> <<"H","o","m","e"," ","P","o","i","n","t">>
      [] cmd_id = 36 -> <<"L","o","o","p"," ","A","d","d","r","e","s","s">>
      [] cmd_id = 37 -> <<"C","i","r","c","l","e">>
      [] cmd_id = 38 -> <<"R","e","t","r","a","c","t"," ","S","e","t","u","p">>
      [] cmd_id = 39 -> <<"I","n","i","t","i","a","l","i","z","e">>
      [] cmd_id = 40 -> <<"L","a","b","e","l">>
      [] cmd_id = 43 -> <<"A","c","c","e","l","e","r","a","t","i","o","n">>
      [] cmd_id = 51 -> <<"B","l","e","n","d"," ","P","o","i","n","t">>
      [] cmd_id = 53 -> <<"C","i","r","c","l","e"," ","D","i","s","p","e","n","s","e"," ","S","e","t","u","p">>
      [] cmd_id = 54 -> <<"D","i","s","p","e","n","s","e"," ","O","u","t","p","o","r","t">>
      [] cmd_id = 55 -> <<"D","u","m","m","y"," ","P","o","i","n","t"," ","P","T","P">>
      [] cmd_id = 57 -> <<"C","u","b","i","c","a","l"," ","L","a","y","e","r">>
      [] cmd_id = 66 -> <<"H","e","i","g","h","t"," ","S","e","n","s","o","r"," ","P","o","i","n","t">>
      [] cmd_id = 67 -> <<"P","a","u","s","e"," ","P","o","i","n","t">>
      [] cmd_id = 68 -> <<"O","u","t","p","u","t"," ","T","o","g","g","l","e">>
      [] cmd_id = 69 -> <<"W","a","i","t"," ","I","n","p","u","t">>
      [] cmd_id = 70 -> <<"C","h","e","c","k"," ","B","l","o","c","k">>
      [] cmd_id = 71 -> <<"A","c","c"," ","T","i","m","e">>
      [] cmd_id = 72 -> <<"D","u","m","m","y"," ","S","t","a","r","t">>
      [] cmd_id = 73 -> <<"D","u","m","m","y"," ","P","a","s","s","i","n","g">>
      [] cmd_id = 74 -> <<"D","u","m","m","y"," ","A","r","c">>
      [] cmd_id = 75 -> <<"D","u","m","m","y"," ","E","n","d">>
      [] cmd_id = 76 -> <<"F","i","x","e","d"," ","P","o","i","n","t">>
      [] cmd_id = 127 -> <<"P","a","d","d","i","n","g">>
      [] OTHER -> <<"U","N","K","N","O","W","N","_">> \o DecStr(cmd_id)

\* A field descriptor: t is "f" (float32), "h" (int16), "h100" and "h1000"
\* (int16 displayed divided by 100 or 1000), "b" (byte 14) or "b1" (byte 14
\* displayed plus one); o is the 0-based offset in the record.
Fd(t, o) == [t |-> t, o |-> o]

\* The parameters decode_command_records reads, in display order.
DecLayout(cmd_id) ==
    CASE cmd_id = 54 -> <<Fd("h", 12)>>
      [] cmd_id = 1 -> <<Fd("f", 0), Fd("b", 14)>>
      [] cmd_id \in {9, 71} -> <<Fd("f", 0)>>
      [] cmd_id \in {27, 30, 40} -> <<Fd("h", 12)>>
      [] cmd_id \in {33, 76} -> <<Fd("b", 14)>>
      [] cmd_id = 22 -> <<Fd("f", 0), Fd("b", 14)>>
      [] cmd_id \in {6, 53} -> <<Fd("f", 0), Fd("f", 4)>>
      [] cmd_id = 68 -> <<Fd("f", 0), Fd("f", 4), Fd("f", 8)>>
      [] cmd_id = 36 -> <<Fd("h", 12), Fd("f", 0)>>
      [] cmd_id = 28 -> <<Fd("f", 0), Fd("f", 4), Fd("b1", 14), Fd("h", 12)>>
      [] cmd_id = 70 -> <<Fd("h", 8), Fd("h", 10)>>
      [] cmd_id \in {7, 43} -> <<Fd("h", 8), Fd("h", 10), Fd("h", 12)>>
      [] cmd_id = 69 -> <<Fd("h", 8), Fd("h", 10)>>
      [] cmd_id = 23 -> <<Fd("f", 0), Fd("f", 4), Fd("f", 8)>>
      [] cmd_id \in {2, 3, 4, 5, 12, 18, 31, 55, 67, 72, 73, 74, 75} ->
            <<Fd("f", 0), Fd("f", 4), Fd("f", 8)>>
      [] cmd_id = 66 -> <<Fd("f", 0), Fd("f", 4), Fd("f", 8), Fd("h100", 12)>>
      [] cmd_id = 21 ->
            <<Fd("f", 0), Fd("h1000", 10), Fd("f", 4), Fd("h1000", 12), Fd("h1000", 8)>>
      [] cmd_id = 37 -> <<Fd("f", 0), Fd("f", 4), Fd("f", 8), Fd("h100", 12)>>
      [] cmd_id \in {29, 38} -> <<Fd("f", 0), Fd("f", 4), Fd("f", 8), Fd("h", 12)>>
      [] cmd_id \in {13, 32} ->
            <<Fd("h100", 0), Fd("h100", 2), Fd("h", 10), Fd("h", 12), Fd("b", 14), Fd("h", 8)>>
      [] OTHER -> <<>>

\* bs[o : o + n] for a 0-based offset o
Slice(bs, o, n) == SubSeq(bs, o + 1, o + n)

\* One decoded parameter: rf, ri, rec[14] and the scalings of lines 141-216.
ReadField(rec, fd) ==
    CASE fd.t = "f" -> F32Unpack(Slice(rec, fd.o, 4))
      [] fd.t = "h" -> Fin(FALSE, 1000 * I16Unpack(Slice(rec, fd.o, 2)))
      [] fd.t = "h100" -> Fin(TRUE, 10 * I16Unpack(Slice(rec, fd.o, 2)))
      [] fd.t = "h1000" -> Fin(TRUE, I16Unpack(Slice(rec, fd.o, 2)))
      [] fd.t = "b" -> Fin(FALSE, 1000 * rec[fd.o + 1])
      [] fd.t = "b1" -> Fin(FALSE, 1000 * (rec[fd.o + 1] + 1))

\* The text of one parameter: a float within 1e-6 of an integer prints as
\* that integer, any other float with "%.6g", an int with str().  round()
\* raises on a NaN or an infinity.
ParamStr(x) ==
    IF x.k # "fin" THEN [ok |-> FALSE, v |-> <<>>]
    ELSE IF x.m % 1000 = 0 THEN [ok |-> TRUE, v |-> DecStr(x.m \div 1000)]
    ELSE [ok |-> TRUE, v |-> DecimalStr(x.m)]

ZeroBytes(n) == [i \in 1..n |-> 0]
PaddingRec == ZeroBytes(15) \o <<255>>

\* text + padding up to RAW_COLUMN + "# raw: " + hex
WithRaw(left_part, raw_hex) ==
    LET spaces_needed == IF RAW_COLUMN - Len(left_part) - 1 >= 1
                         THEN RAW_COLUMN - Len(left_part) - 1 ELSE 1
    IN  left_part \o Spaces(spaces_needed) \o RawMark \o <<" ">> \o raw_hex

\* The line decode_command_records appends for one 16-byte record.
DecodeRecord(rec) ==
    LET byte15 == rec[16]
        cmd_id == byte15 % 128
        lay == DecLayout(cmd_id)
        outp == [i \in 1..Len(lay) |-> ParamStr(ReadField(rec, lay[i]))]
        head == Hex2(byte15) \o <<" ">> \o CmdName(cmd_id)
        left_part == IF lay = <<>> THEN head
                     ELSE head \o <<" ">> \o JoinSp([i \in 1..Len(lay) |-> outp[i].v])
    IN  IF rec = PaddingRec
        THEN [ok |-> TRUE, v |-> WithRaw(<<"F","F"," ","P","a","d","d","i","n","g">>, HexOf(rec))]
        ELSE IF \E i \in 1..Len(lay) : ~outp[i].ok THEN [ok |-> FALSE, v |-> <<>>]
        ELSE [ok |-> TRUE, v |-> WithRaw(left_part, HexOf(rec))]

\* data[:-400], data[-400:] and len(body) // 16
Body(data) == SubSeq(data, 1, Len(data) - 400)
SysmemOf(data) == SubSeq(data, Len(data) - 399, Len(data))
NRecs(data) == Len(Body(data)) \div 16
RecAt(bs, i) == SubSeq(bs, 16 * (i - 1) + 1, 16 * i)

\* decode_command_records: the count comment and one line per record; it
\* fails when a record's parameter cannot be printed.
DecodeCommandRecords(data) ==
    LET n == NRecs(data)
        rs == [i \in 1..n |-> DecodeRecord(RecAt(Body(data), i))]
    IN  IF \E i \in 1..n : ~rs[i].ok THEN [ok |-> FALSE, v |-> <<>>]
        ELSE [ok |-> TRUE,
              v |-> <<(<<"#"," ">> \o DecStr(n) \o <<" ","r","e","c","o","r","d","s">>)>>
                    \o [i \in 1..n |-> rs[i].v]]

(***************************************************************************)
(* SysMem: the field registry and decode                                   *)
(***************************************************************************)
\* One entry of sysmem_field_map: name, 0-based offset, dtype ("int8",
\* "int16", "int32", "float32", "str" or "bit"), the number of bytes the
\* field owns, the bit index of a "bit" entry, and whether the entry
\* carries a transform.
Fld(name, off, dtype, n, bit, tr) ==
    [name |-> name, off |-> off, dtype |-> dtype, n |-> n, bit |-> bit, tr |-> tr]

\* sysmem_field_map, in insertion order (O1..O8 are appended by the loop).
sysmem_field_map == <<
    Fld(<<"P","r","o","g","r","a","m","S","i","z","e">>, 207, "int32", 4, 0, TRUE),
    Fld(<<"X","Y","M","o","v","e","S","p","e","e","d">>, 12, "float32", 4, 0, FALSE),
    Fld(<<"Z","M","o","v","e","S","p","e","e","d">>, 44, "float32", 4, 0, FALSE),
    Fld(<<"D","e","b","u","g","S","p","e","e","d">>, 105, "float32", 4, 0, FALSE),
    Fld(<<"T","i","p","H","o","m","e","X">>, 85, "float32", 4, 0, FALSE),
    Fld(<<"T","i","p","H","o","m","e","Y">>, 89, "float32", 4, 0, FALSE),
    Fld(<<"T","i","p","H","o","m","e","Z">>, 93, "float32", 4, 0, FALSE),
    Fld(<<"T","i","p","A","d","j","u","s","t","X">>, 109, "float32", 4, 0, FALSE),
    Fld(<<"T","i","p","A","d","j","u","s","t","Y">>, 113, "float32", 4, 0, FALSE),
    Fld(<<"T","i","p","A","d","j","u","s","t","Z">>, 117, "float32", 4, 0, FALSE),
    Fld(<<"S","o","f","t","O","r","g","X">>, 267, "float32", 4, 0, FALSE),
    Fld(<<"S","o","f","t","O","r","g","Y">>, 271, "float32", 4, 0, FALSE),
    Fld(<<"S","o","f","t","O","r","g","Z">>, 275, "float32", 4, 0, FALSE),
    Fld(<<"A","u","t","o","P","u","r","g","e","W","a","i","t","T","i","m","e">>, 178, "float32", 4, 0, FALSE),
    Fld(<<"A","u","t","o","P","u","r","g","e","D","i","s","p","e","n","s","e","T","i","m","e">>, 182, "float32", 4, 0, FALSE),
    Fld(<<"Z","L","i","m","i","t">>, 79, "float32", 4, 0, FALSE),
    Fld(<<"P","r","e","D","i","s","p","e","n","s","e","W","a","i","t">>, 263, "float32", 4, 0, FALSE),
    Fld(<<"R","u","n","C","o","u","n","t","e","r">>, 70, "int16", 2, 0, FALSE),
    Fld(<<"Q","u","i","c","k","S","t","e","p">>, 177, "int8", 1, 0, TRUE),
    Fld(<<"R","u","n","n","i","n","g","H","o","m","e","F","i","r","s","t">>, 397, "int8", 1, 0, TRUE),
    Fld(<<"E","m","e","r","g","e","n","c","y","M","o","d","e">>, 190, "int8", 1, 0, TRUE),
    Fld(<<"P","r","o","g","r","a","m","L","a","b","e","l">>, 52, "str", 15, 0, FALSE),
    Fld(<<"M","a","g","i","c","S","i","g","n","a","t","u","r","e","_","3","9","8">>, 398, "int16", 2, 0, FALSE),
    Fld(<<"O","1">>, 83, "bit", 2, 0, FALSE),
    Fld(<<"O","2">>, 83, "bit", 2, 1, FALSE),
    Fld(<<"O","3">>, 83, "bit", 2, 2, FALSE),
    Fld(<<"O","4">>, 83, "bit", 2, 3, FALSE),
    Fld(<<"O","5">>, 83, "bit", 2, 4, FALSE),
    Fld(<<"O","6">>, 83, "bit", 2, 5, FALSE),
    Fld(<<"O","7">>, 83, "bit", 2, 6, FALSE),
    Fld(<<"O","8">>, 83, "bit", 2, 7, FALSE) >>

\* sysmem_field_map[name]
FieldOf(name) ==
    sysmem_field_map[CHOOSE i \in 1..Len(sysmem_field_map) : sysmem_field_map[i].name = name]

NmProgramSize == sysmem_field_map[1].name
NmQuickStep == sysmem_field_map[19].name
NmRunningHomeFirst == sysmem_field_map[20].name
NmEmergencyMode == sysmem_field_map[21].name

StrTrue == <<"T","r","u","e">>
StrFalse == <<"F","a","l","s","e">>
StrMaintaining == <<"M","a","i","n","t","a","i","n","i","n","g">>
StrInitial == <<"I","n","i","t","i","a","l">>
BoolStr(b) == IF b THEN StrTrue ELSE StrFalse

\* get_string: the bytes before the first NUL, decoded as ASCII.
GetString(sysmem, off, length) ==
    LET raw == Slice(sysmem, off, length)
        nul == {i \in 1..Len(raw) : raw[i] = 0}
        cut == IF nul = {} THEN raw
               ELSE SubSeq(raw, 1, (CHOOSE i \in nul : \A j \in nul : i <= j) - 1)
    IN  AsciiDecode(cut)

\* The displayed value of one non-bit field: get_int / get_float /
\* get_string followed by the reverse transforms of lines 314-323.
FieldValueStr(sysmem, fd) ==
    LET bs == Slice(sysmem, fd.off, fd.n)
    IN  CASE fd.dtype = "int8" ->
               (IF fd.name = NmQuickStep THEN BoolStr(I8Unpack(bs) # 0)
                ELSE IF fd.name = NmRunningHomeFirst THEN BoolStr(I8Unpack(bs) = 0)
                ELSE IF fd.name = NmEmergencyMode
                     THEN (IF I8Unpack(bs) # 0 THEN StrMaintaining ELSE StrInitial)
                ELSE DecStr(I8Unpack(bs)))
          [] fd.dtype = "int16" -> DecStr(I16Unpack(bs))
          [] fd.dtype = "int32" ->
               (IF fd.name = NmProgramSize THEN DecStr(I32Unpack(bs) - 1)
                ELSE DecStr(I32Unpack(bs)))
          [] fd.dtype = "float32" -> FloatStr(F32Unpack(bs))
          [] fd.dtype = "str" -> GetString(sysmem, fd.off, fd.n)

\* f"{field}: {val}" padded to RAW_COLUMN, then the raw capture.
FieldLine(name, valstr, raw_hex) == WithRaw(name \o <<":"," ">> \o valstr, raw_hex)

\* bit i of word w
BitOf(w, i) == (w \div Pow2(i)) % 2

\* decode_sysmem_pretty: the header, one line per non-bit field, the eight
\* O lines, the second header and the 20 rows of the raw dump.
DecodeSysmemPretty(sysmem) ==
    LET plain == SelectSeq(sysmem_field_map, LAMBDA fd : fd.dtype # "bit")
        oflags == U16Unpack(Slice(sysmem, 83, 2))
    IN  <<HdrDecoded>>
        \o [i \in 1..Len(plain) |->
              FieldLine(plain[i].name, FieldValueStr(sysmem, plain[i]),
                        HexOf(Slice(sysmem, plain[i].off, plain[i].n)))]
        \o [i \in 1..8 |->
              FieldLine(<<"O">> \o DecStr(i), BoolStr(BitOf(oflags, i - 1) = 1),
                        Hex2(oflags \div 256) \o Hex2(oflags % 256))]
        \o <<HdrUnmapped>>
        \o [r \in 1..20 |->
              JoinSp([i \in 1..20 |-> Hex2(Slice(sysmem, 20 * (r - 1), 20)[i])])]

\* decode_file: the text lines written for the input, or a failure (input
\* shorter than 500 bytes, or an exception while decoding the records).
DecodeFile(data) ==
    LET Write(lines) == [ok |-> TRUE, opened |-> TRUE, v |-> lines]
        Pretty(recs) ==
            IF ~recs.ok THEN [ok |-> FALSE, opened |-> FALSE, v |-> <<>>]
            ELSE Write(recs.v \o DecodeSysmemPretty(SysmemOf(data)))
    IN  IF Len(data) < 500 THEN [ok |-> FALSE, opened |-> FALSE, v |-> <<>>]
        ELSE Pretty(DecodeCommandRecords(data))

(***************************************************************************)
(* Records: encode                                                         *)
(***************************************************************************)
\* A packing that takes the layout of the next kind.
EncLayoutOfNextKind(cmd_id) == DecLayout((cmd_id + 1) % 128)

\* The fields _pack_record_from_text packs, in the order it consumes the
\* parameter values ("b1" stores the value minus one; "h100" and "h1000"
\* store round(value * 100) and round(value * 1000)).
EncLayout(cmd_id) ==
    CASE cmd_id = 54 -> <<Fd("h", 12)>>
      [] cmd_id = 1 -> <<Fd("f", 0), Fd("b", 14)>>
      [] cmd_id \in {9, 71} -> <<Fd("f", 0)>>
      [] cmd_id \in {27, 30, 40} -> <<Fd("h", 12)>>
      [] cmd_id \in {33, 76} -> <<Fd("b", 14)>>
      [] cmd_id = 22 -> <<Fd("f", 0), Fd("b", 14)>>
      [] cmd_id \in {6, 53} -> <<Fd("f", 0), Fd("f", 4)>>
      [] cmd_id = 68 -> <<Fd("f", 0), Fd("f", 4), Fd("f", 8)>>
      [] cmd_id = 36 -> <<Fd("h", 12), Fd("f", 0)>>
      [] cmd_id = 28 -> <<Fd("f", 0), Fd("f", 4), Fd("b1", 14), Fd("h", 12)>>
      [] cmd_id = 70 -> <<Fd("h", 8), Fd("h", 10)>>
      [] cmd_id \in {7, 43} -> <<Fd("h", 8), Fd("h", 10), Fd("h", 12)>>
      [] cmd_id = 69 -> <<Fd("h", 8), Fd("h", 10)>>
      [] cmd_id = 23 -> <<Fd("f", 0), Fd("f", 4), Fd("f", 8)>>
      [] cmd_id \in {2, 3, 4, 5, 12, 18, 31, 55, 67, 72, 73, 74, 75} ->
            <<Fd("f", 0), Fd("f", 4), Fd("f", 8)>>
      [] cmd_id = 66 -> <<Fd("f", 0), Fd("f", 4), Fd("f", 8), Fd("h100", 12)>>
      [] cmd_id = 21 ->
            <<Fd("f", 0), Fd("h1000", 10), Fd("f", 4), Fd("h1000", 12), Fd("h1000", 8)>>
      [] cmd_id = 37 -> <<Fd("f", 0), Fd("f", 4), Fd("f", 8), Fd("h100", 12)>>
      [] cmd_id \in {29, 38} -> <<Fd("f", 0), Fd("f", 4), Fd("f", 8), Fd("h", 12)>>
      [] cmd_id \in {13, 32} ->
            <<Fd("h100", 0), Fd("h100", 2), Fd("h", 10), Fd("h", 12), Fd("b", 14), Fd("h", 8)>>
      [] OTHER -> <<>>

\* buf with the bytes bs written at 0-based offset o
WriteAt(buf, o, bs) ==
    [i \in 1..Len(buf) |-> IF i > o /\ i <= o + Len(bs) THEN bs[i - o] ELSE buf[i]]

\* A packing that stores int(x) in a scaled field, without the scale.
PackFieldUnscaled(fd, x) ==
    LET i == PyToInt(x)
    IN  CASE fd.t = "f" -> [ok |-> TRUE, v |-> F32Pack(x)]
          [] fd.t = "b" -> IF i.ok THEN BytePack(i.v) ELSE [ok |-> FALSE, v |-> <<>>]
          [] fd.t = "b1" -> IF i.ok THEN BytePack(i.v - 1) ELSE [ok |-> FALSE, v |-> <<>>]
          [] OTHER -> IF i.ok THEN I16Pack(i.v) ELSE [ok |-> FALSE, v |-> <<>>]

\* The bytes one field stores for the value x: float(), int(), int() - 1 or
\* int(round(x * scale)) followed by the struct or bytearray store.
PackField(fd, x) ==
    LET i == PyToInt(x)
        r == PyRoundScaled(x, IF fd.t = "h100" THEN 100 ELSE 1000)
    IN  CASE fd.t = "f" -> [ok |-> TRUE, v |-> F32Pack(x)]
          [] fd.t = "h" -> IF i.ok THEN I16Pack(i.v) ELSE [ok |-> FALSE, v |-> <<>>]
          [] fd.t = "b" -> IF i.ok THEN BytePack(i.v) ELSE [ok |-> FALSE, v |-> <<>>]
          [] fd.t = "b1" -> IF i.ok THEN BytePack(i.v - 1) ELSE [ok |-> FALSE, v |-> <<>>]
          [] fd.t \in {"h100", "h1000"} ->
               IF r.ok THEN I16Pack(r.v) ELSE [ok |-> FALSE, v |-> <<>>]

\* The chain of lines 473-622: the fields of the layout consume val_list
\* from the left; a missing value raises IndexError, values left over are
\* never looked at.
RECURSIVE PackFields(_, _, _)
PackFields(bcar, lay, val_list) ==
    IF lay = <<>> THEN [ok |-> TRUE, v |-> bcar]
    ELSE IF val_list = <<>> THEN [ok |-> FALSE, v |-> <<>>]
    ELSE LET p == PackField(Head(lay), Head(val_list))
         IN  IF ~p.ok THEN [ok |-> FALSE, v |-> <<>>]
             ELSE PackFields(WriteAt(bcar, Head(lay).o, p.v), Tail(lay), Tail(val_list))

\* The tokens from the first one float() accepts onwards (lines 441-454).
RECURSIVE ParamTokens(_)
ParamTokens(toks) ==
    IF toks = <<>> THEN <<>>
    ELSE IF PyFloat(Head(toks)).ok THEN toks
    ELSE ParamTokens(Tail(toks))

\* p is parsed with float() when it holds ".", "e" or "E", else with int()
\* (lines 457-468).
ParseParam(p) ==
    IF \E i \in 1..Len(p) : p[i] \in {".", "e", "E"}
    THEN PyFloat(p)
    ELSE LET r == PyInt(p) IN [ok |-> r.ok, v |-> Fin(FALSE, 1000 * r.v)]

\* _pack_record_from_text: the 16 bytes of a line without a raw capture, or
\* a failure.
PackRecordFromText(text_part) ==
    LET tokens == SplitWs(text_part)
        hex15 == tokens[1]
        byte15 == PyIntHex(hex15)
        param_tokens == ParamTokens(Tail(tokens))
        vals == [i \in 1..Len(param_tokens) |-> ParseParam(param_tokens[i])]
        cmd_id == byte15.v % 128
    IN  IF Len(tokens) < 2 THEN [ok |-> FALSE, v |-> <<>>]
        ELSE IF Len(hex15) # 2 THEN [ok |-> FALSE, v |-> <<>>]
        ELSE IF ~byte15.ok THEN [ok |-> FALSE, v |-> <<>>]
        ELSE IF byte15.v = 255 THEN [ok |-> TRUE, v |-> PaddingRec]
        ELSE IF ~BytePack(byte15.v).ok THEN [ok |-> FALSE, v |-> <<>>]
        ELSE IF \E i \in 1..Len(vals) : ~vals[i].ok THEN [ok |-> FALSE, v |-> <<>>]
        ELSE PackFields(ZeroBytes(15) \o <<byte15.v>>, EncLayout(cmd_id),
                        [i \in 1..Len(vals) |-> vals[i].v])

\* A loop that re-packs the text before "# raw:" and ignores the capture.
RawRecordRepacked(ln) == PackRecordFromText(BeforeFirst(ln, RawMark))

\* The bytes of a line holding "# raw:": what follows the first "# raw:",
\* stripped and without spaces, must be 32 characters that fromhex accepts.
RawRecord(ln) ==
    LET raw_hex == SelectSeq(Strip(AfterFirst(ln, RawMark)), LAMBDA c : c # " ")
    IN  IF Len(raw_hex) # 32 THEN [ok |-> FALSE, v |-> <<>>] ELSE FromHex(raw_hex)

\* What the loop of encode_records_from_text does with one line: "skip"
\* (blank or comment), "stop" (SysMem header) or "rec" (16 bytes appended).
LineAct(ln) ==
    LET strip_ln == Strip(ln)
    IN  IF strip_ln = <<>> \/ StartsWith(strip_ln, <<"#">>) THEN "skip"
        ELSE IF StartsWith(strip_ln, HdrDecodedPrefix) THEN "stop"
        ELSE "rec"

\* The bytes of a "rec" line: the raw capture if "# raw:" is present, else
\* the text re-packed.
RecordBytes(ln) ==
    IF Contains(ln, RawMark) THEN RawRecord(ln) ELSE PackRecordFromText(ln)

\* The 1-based position of the line that stops the record loop,
\* Len(lines) + 1 if there is none.
RecordsEnd(lines) ==
    LET Stops(i) == LineAct(lines[i]) = "stop"
    IN  IF \E i \in 1..Len(lines) : Stops(i)
        THEN CHOOSE i \in 1..Len(lines) : Stops(i) /\ \A j \in 1..(i - 1) : ~Stops(j)
        ELSE Len(lines) + 1

\* encode_records_from_text: the record bytes and the position idx of the
\* line the loop stopped at; fails when one line fails.
EncodeRecordsFromText(lines) ==
    LET idx == RecordsEnd(lines)
        recLines == SelectSeq(SubSeq(lines, 1, idx - 1), LAMBDA ln : LineAct(ln) = "rec")
        rs == [i \in 1..Len(recLines) |-> RecordBytes(recLines[i])]
    IN  IF \E i \in 1..Len(rs) : ~rs[i].ok THEN [ok |-> FALSE, recs |-> <<>>, idx |-> idx]
        ELSE [ok |-> TRUE, recs |-> ConcatAll([i \in 1..Len(rs) |-> rs[i].v]), idx |-> idx]

(***************************************************************************)
(* SysMem: encode and overlay                                              *)
(***************************************************************************)
\* str.lower()
Lower(s) ==
    LET upper == <<"A","B","C","D","E","F","G","H","I","J","K","L","M",
                   "N","O","P","Q","R","S","T","U","V","W","X","Y","Z">>
        lower == <<"a","b","c","d","e","f","g","h","i","j","k","l","m",
                   "n","o","p","q","r","s","t","u","v","w","x","y","z">>
    IN  [i \in 1..Len(s) |->
            IF \E k \in 1..26 : upper[k] = s[i]
            THEN lower[CHOOSE k \in 1..26 : upper[k] = s[i]] ELSE s[i]]

\* line.split(":", 1), both halves stripped
FieldPart(line) == Strip(BeforeFirst(line, <<":">>))
ValuePart(line) == Strip(AfterFirst(line, <<":">>))

\* An encode that applies no transform to an integer field.
TransformIntNone(fd, v) == v

\* The transform lambdas of sysmem_field_map as encode applies them: to the
\* int of the text for ProgramSize, to the text itself for the int8 fields.
TransformInt(fd, v) == IF fd.name = NmProgramSize THEN v + 1 ELSE v
TransformStr(fd, value) ==
    IF fd.name = NmQuickStep THEN (IF value # <<>> THEN 1 ELSE 0)
    ELSE IF fd.name = NmRunningHomeFirst THEN (IF value # <<>> THEN 0 ELSE 1)
    ELSE IF value = StrMaintaining THEN 1 ELSE 0

\* value.encode("ascii", errors="ignore")[:length], NUL-padded
PackString(value, length) ==
    LET Pad(c) == c \o ZeroBytes(length - Len(c))
        Cut(e) == Pad(IF Len(e) > length THEN SubSeq(e, 1, length) ELSE e)
    IN  Cut(AsciiEncode(value))

\* The bytes one non-bit field line stores (lines 386-401), or a failure.
EncodeFieldValue(fd, value) ==
    LET Packed(v) == IF fd.dtype = "int16" THEN I16Pack(v) ELSE I32Pack(v)
        IntField(iv) ==
            IF iv.ok THEN Packed(TransformInt(fd, iv.v)) ELSE [ok |-> FALSE, v |-> <<>>]
        FloatField(fv) ==
            IF fv.ok THEN [ok |-> TRUE, v |-> F32Pack(fv.v)] ELSE [ok |-> FALSE, v |-> <<>>]
    IN  CASE fd.dtype = "int8" -> [ok |-> TRUE, v |-> <<TransformStr(fd, value) % 256>>]
          [] fd.dtype \in {"int16", "int32"} -> IntField(PyInt(value))
          [] fd.dtype = "float32" -> FloatField(PyFloat(value))
          [] fd.dtype = "str" -> [ok |-> TRUE, v |-> PackString(value, fd.n)]

\* value.lower() in ("1", "true", "yes")
BitValue(value) == Lower(value) \in {<<"1">>, <<"t","r","u","e">>, <<"y","e","s">>}

\* Bitwise or of the word w with bit i
OrBit(w, i) == IF BitOf(w, i) = 1 THEN w ELSE w + Pow2(i)

\* The three loops over the SysMem part of the text strip every line
\* before they look at it; they are given the stripped lines.
StripAll(lines) == [i \in 1..Len(lines) |-> Strip(lines[i])]

\* The least position after `from` at which flags holds TRUE, Len(flags) + 1
\* if there is none: where a loop over the lines breaks.
FirstTrue(flags, from) ==
    LET hits == {i \in (from + 1)..Len(flags) : flags[i]}
    IN  IF hits = {} THEN Len(flags) + 1 ELSE CHOOSE i \in hits : \A j \in hits : i <= j

\* A stripped line the loops take for an edited field: it holds ":", it
\* holds no "# raw:", and what stands before the ":" is a registered name.
IsEditedField(line) ==
    /\ Contains(line, <<":">>)
    /\ ~Contains(line, RawMark)
    /\ LET field == FieldPart(line)
       IN  \E k \in 1..Len(sysmem_field_map) : sysmem_field_map[k].name = field

\* The effect of the edited field lines, in order, on the buffer st.buf
\* and on the word st.bits collected for offset 83 (-1 while no O line has
\* been met); a value that cannot be encoded raises.
RECURSIVE ApplyFields(_, _)
ApplyFields(edited, st) ==
    LET Store(fd, enc) ==
            IF ~enc.ok THEN [st EXCEPT !.ok = FALSE]
            ELSE ApplyFields(Tail(edited), [st EXCEPT !.buf = WriteAt(st.buf, fd.off, enc.v)])
        SetBit(fd, value, b0) ==
            ApplyFields(Tail(edited),
                        [st EXCEPT !.bits = IF BitValue(value) THEN OrBit(b0, fd.bit) ELSE b0])
        Apply(fd, value) ==
            IF fd.dtype = "bit"
            THEN SetBit(fd, value, IF st.bits < 0 THEN 0 ELSE st.bits)
            ELSE Store(fd, EncodeFieldValue(fd, value))
        ApplyLine(line) == Apply(FieldOf(FieldPart(line)), ValuePart(line))
    IN  IF edited = <<>> THEN st ELSE ApplyLine(Head(edited))

\* encode_sysmem_from_fields: the loop runs over the lines after start_idx
\* up to the first blank or "=====" line and skips every line that is not
\* an edited field; the result is the zeroed 400-byte buffer with the
\* edited fields, then the collected flag word.
EncodeSysmemFromFields(stripped, start_idx) ==
    LET Finish(st) ==
            IF ~st.ok THEN [ok |-> FALSE, v |-> <<>>]
            ELSE IF st.bits < 0 THEN [ok |-> TRUE, v |-> st.buf]
            ELSE [ok |-> TRUE, v |-> WriteAt(st.buf, 83, U16Pack(st.bits).v)]
        Loop(stop) ==
            Finish(ApplyFields(SelectSeq(SubSeq(stripped, start_idx + 1, stop - 1),
                                         IsEditedField),
                               [ok |-> TRUE, buf |-> ZeroBytes(400), bits |-> -1]))
    IN  Loop(FirstTrue([i \in 1..Len(stripped) |->
                          stripped[i] = <<>> \/ StartsWith(stripped[i], FiveEq)],
                       start_idx))

\* The first loop of encode_file (lines 700-712): the names of the edited
\* fields on the lines from idx up to the unmapped header.
ToReencode(stripped, idx) ==
    LET Names(found) == {FieldPart(found[k]) : k \in 1..Len(found)}
        Loop(stop) == Names(SelectSeq(SubSeq(stripped, idx, stop - 1), IsEditedField))
    IN  Loop(FirstTrue([i \in 1..Len(stripped) |-> StartsWith(stripped[i], HdrUnmapped)],
                       idx - 1))

\* int(h, 16) of every token of the raw dump
ParseHexTokens(toks) ==
    LET Values(hs) ==
            IF \E k \in 1..Len(hs) : ~hs[k].ok THEN [ok |-> FALSE, v |-> <<>>]
            ELSE [ok |-> TRUE, v |-> [k \in 1..Len(hs) |-> hs[k].v]]
    IN  Values([k \in 1..Len(toks) |-> PyIntHex(toks[k])])

\* parse_unmapped_raw: the loop reads the tokens of the lines below the
\* header at start_idx, up to a line that starts with "=====", until it
\* holds 400 values; tokens beyond the 400th are never converted.  It
\* fails on a token int(h, 16) rejects, on fewer than 400 values, and in
\* bytes() on a value outside 0..255.
ParseUnmappedRaw(stripped, start_idx) ==
    LET Finish(hex_bytes) ==
            IF ~hex_bytes.ok THEN [ok |-> FALSE, v |-> <<>>]
            ELSE IF Len(hex_bytes.v) < 400 THEN [ok |-> FALSE, v |-> <<>>]
            ELSE IF \E i \in 1..400 : hex_bytes.v[i] < 0 \/ hex_bytes.v[i] > 255
                 THEN [ok |-> FALSE, v |-> <<>>]
            ELSE [ok |-> TRUE, v |-> hex_bytes.v]
        Convert(parts) ==
            Finish(ParseHexTokens(IF Len(parts) > 400 THEN SubSeq(parts, 1, 400) ELSE parts))
        Loop(stop) ==
            Convert(ConcatAll([i \in 1..(stop - start_idx - 1) |->
                                  SplitWs(stripped[start_idx + i])]))
    IN  Loop(FirstTrue([i \in 1..Len(stripped) |-> StartsWith(stripped[i], FiveEq)],
                       start_idx))

\* all_lines.index(header_unmapped) + 1, 0 when no line equals the header
IndexOfUnmapped(lines) ==
    LET hits == {i \in 1..Len(lines) : lines[i] = HdrUnmapped}
    IN  IF hits = {} THEN 0 ELSE CHOOSE i \in hits : \A j \in hits : i <= j

\* The overlay loop of encode_file (lines 724-739): every field named in
\* to_reencode takes its byte range from mapped_buffer, every other byte is
\* the byte of the base buffer.
Overlay(unmapped_base, mapped_buffer, to_reencode) ==
    LET Range(fd) == (fd.off + 1)..(fd.off + fd.n)
        Laid(marked) ==
            [i \in 1..400 |-> IF i \in marked THEN mapped_buffer[i] ELSE unmapped_base[i]]
    IN  Laid(UNION {Range(FieldOf(name)) : name \in to_reencode})

\* A conversion that opens the output and writes the records as soon as
\* they are packed, and then stops.
EncodeFileRecordsFirst(written) ==
    LET Write(r) == [ok |-> FALSE, opened |-> r.ok, v |-> r.recs]
    IN  Write(EncodeRecordsFromText(ReadLines(written)))

\* encode_file: the bytes written to the output file for the text lines
\* written, or a failure; opened tells whether open(outfile, "wb") of line
\* 742 was reached.  The steps are those of lines 695-744, each computed
\* once: the records, the names of the edited fields, the re-encoded
\* buffer, the base buffer, the overlay.
EncodeFile(written) ==
    LET Write(r, to_reencode, mapped, idx_unmapped, base) ==
            IF ~r.ok THEN [ok |-> FALSE, opened |-> FALSE, v |-> <<>>]
            ELSE IF ~mapped.ok THEN [ok |-> FALSE, opened |-> FALSE, v |-> <<>>]
            ELSE IF idx_unmapped = 0 THEN [ok |-> FALSE, opened |-> FALSE, v |-> <<>>]
            ELSE IF ~base.ok THEN [ok |-> FALSE, opened |-> FALSE, v |-> <<>>]
            ELSE [ok |-> TRUE, opened |-> TRUE,
                  v |-> r.recs \o Overlay(base.v, mapped.v, to_reencode)]
        SysMem(stripped, r, idx_unmapped) ==
            Write(r, ToReencode(stripped, r.idx), EncodeSysmemFromFields(stripped, r.idx),
                  idx_unmapped, ParseUnmappedRaw(stripped, idx_unmapped))
        Records(all_lines) ==
            SysMem(StripAll(all_lines), EncodeRecordsFromText(all_lines),
                   IndexOfUnmapped(all_lines))
    IN  Records(ReadLines(written))

(***************************************************************************)
(* The program as a state machine                                          *)
(***************************************************************************)
VARIABLES
    infile,     \* the bytes of the binary file given to decode_file
    textfile,   \* the lines of the text file (as joined by "\n" when written)
    outfile,    \* the bytes encode_file wrote, <<>> while it wrote nothing
    pc,         \* "start", "decoded", "decode_failed", "encoded" or
                \* "encode_failed"; "line", "packed", "pack_failed" for
                \* _pack_record_from_text run on one line
    edits,      \* the edits made to the text since it was decoded
    opened      \* the output files opened for writing so far: "text" by
                \* decode_file, "out" by encode_file

vars == <<infile, textfile, outfile, pc, edits, opened>>

\* Number of records of the well-formed inputs (7 is the least a file of at
\* least 500 bytes can hold).
NumRecs == 7

\* Number of lines the user edits between decode and encode.
MaxEdits == 1

\* ---- inputs -------------------------------------------------------------
\* 16-byte records: little-endian fields, byte 14, then the discriminant.
Rec(b0_13, b14, b15) == b0_13 \o <<b14, b15>>

F32Of(m) == F32Pack(Fin(TRUE, m))
I16Of(v) == I16Pack(v).v

RecordPool == {
    PaddingRec,
    \* 81 Line Speed 2.5 200  (top bit of the discriminant set)
    Rec(F32Of(2500) \o ZeroBytes(10), 200, 129),
    \* 1C Brush Area -0.125 3 256 -7
    Rec(F32Of(-125) \o F32Of(3000) \o ZeroBytes(4) \o I16Of(-7), 255, 28),
    \* 0D Step & Repeat X 2.5 -327.68 4 5 6 7
    Rec(I16Of(250) \o I16Of(-32768) \o ZeroBytes(4) \o I16Of(7) \o I16Of(4) \o I16Of(5), 6, 13),
    \* 15 Line Dispense Setup 1.5 0.25 3 -0.001 32.767
    Rec(F32Of(1500) \o F32Of(3000) \o I16Of(32767) \o I16Of(250) \o I16Of(-1), 0, 21),
    \* 4D UNKNOWN_77 with bytes in every position
    Rec(<<1, 2, 3, 4, 5, 6, 7, 8, 9, 10, 11, 12, 13, 14>>, 15, 77),
    \* kind 127 with the top bit set that is no padding record
    Rec(<<9>> \o ZeroBytes(13), 0, 255),
    \* 01 Line Speed with a NaN in the float position
    Rec(<<0, 0, 192, 127>> \o ZeroBytes(10), 1, 1)
}

\* A SysMem block: label, 16-bit flag word (offset 83), the int32 at
\* offset 207 (ProgramSize), one float field (XYMoveSpeed, offset 12), an
\* int8 field (QuickStep, offset 177), a byte no field covers (offset 396)
\* and the bytes of offsets 0, 190 (EmergencyMode) and 397..399 (fields of
\* the registry; 397 is RunningHomeFirst).
SysmemWith(label, flags, size, junk) ==
    LET z0 == ZeroBytes(400)
        z1 == WriteAt(z0, 52, label)
        z2 == WriteAt(z1, 83, U16Pack(flags).v)
        z3 == WriteAt(z2, 207, size)
        z4 == WriteAt(z3, 12, F32Of(2500))
        z5 == WriteAt(z4, 0, <<junk>>)
        z6 == WriteAt(z5, 396, <<junk, junk % 2, 85, 170>>)
        z7 == WriteAt(z6, 190, <<junk % 2>>)
    IN  WriteAt(z7, 177, <<junk % 3>>)

\* The blocks of the inputs: a base block (label "AB", flag bits 0 and 3
\* set, stored size 5), the block that differs from it in the label only
\* ("A", LF, "B"), an all-zero block, and a block with the label " a", a
\* byte above 127, ":", every flag bit set and a stored size of -1.
BaseSysmem == SysmemWith(<<65, 66>>, 9, <<5, 0, 0, 0>>, 222)
BreakSysmem == SysmemWith(<<65, 10, 66>>, 9, <<5, 0, 0, 0>>, 222)
SysmemPool ==
    { BaseSysmem, BreakSysmem,
      ZeroBytes(400),
      SysmemWith(<<32, 97, 128, 58>>, 65535, <<255, 255, 255, 255>>, 1) }

LineSpeedRec == Rec(F32Of(2500) \o ZeroBytes(10), 200, 129)
UnknownRec == Rec(<<1, 2, 3, 4, 5, 6, 7, 8, 9, 10, 11, 12, 13, 14>>, 15, 77)

\* Record regions: the first record ranges over the pool, the second is
\* the record of unknown kind, the others are padding records.
BodyWith(r1) == ConcatAll(<<r1, UnknownRec>> \o [i \in 1..(NumRecs - 2) |-> PaddingRec])

\* Inputs of a wrong size: 499 bytes, 500 bytes (6 records and 4 bytes
\* over), and a well-formed file followed by one more byte.
Padding(n) == ConcatAll([i \in 1..n |-> PaddingRec])
OddInputs ==
    { ZeroBytes(99) \o ZeroBytes(400),
      Padding(6) \o <<1, 2, 3, 4>> \o BaseSysmem,
      Padding(NumRecs) \o <<7>> \o BaseSysmem }

Inputs ==
    {BodyWith(r1) \o BaseSysmem : r1 \in RecordPool}
    \cup {BodyWith(LineSpeedRec) \o s : s \in SysmemPool}
    \cup OddInputs

\* ---- the user's edits ---------------------------------------------------
\* The structured text of a record or field line: what stands before the
\* raw capture, without the alignment spaces.
TextOf(ln) == RStrip(BeforeFirst(ln, RawMark))

\* The raw capture of a line, from "# raw:" on.
RawOf(ln) == SubSeq(ln, Find(ln, RawMark), Len(ln))

\* The tokens of a record text before its parameters: the hex token and
\* the words of the command name.
HeadTokens(text) ==
    LET toks == SplitWs(text)
    IN  SubSeq(toks, 1, Len(toks) - Len(ParamTokens(Tail(toks))))

\* A valid text for one parameter of the given type; n picks one of two.
ParamText(t, n) ==
    CASE t = "f" -> IF n = 1 THEN <<"1",".","5">> ELSE <<"-","4">>
      [] t = "h" -> IF n = 1 THEN <<"7">> ELSE <<"-","3","0","0">>
      [] t = "b" -> IF n = 1 THEN <<"3">> ELSE <<"2","5","5">>
      [] t = "b1" -> IF n = 1 THEN <<"2">> ELSE <<"2","5","6">>
      [] t = "h100" -> IF n = 1 THEN <<"2",".","5">> ELSE <<"-","0",".","0","7">>
      [] t = "h1000" -> IF n = 1 THEN <<"0",".","2","5">> ELSE <<"1","2">>

\* The ways the user rewrites a decoded record line, by name:
\*   "unraw"   the raw capture removed, the text kept
\*   "values1", "values2"  the raw capture removed, every parameter changed
\*   "few", "many"  the raw capture removed, one parameter dropped or added
\*   "garble"  the raw capture kept, the text before it replaced
\*   "rekind"  the raw capture kept, the text of another kind before it
\*   "badraw"  the text kept, the last byte of the raw capture deleted
\* A line without parameters has no "values1", "values2" or "few" edit.
RecordEditKinds(old) ==
    LET head == HeadTokens(TextOf(old))
    IN  IF DecLayout(PyIntHex(head[1]).v % 128) = <<>>
        THEN {"unraw", "many", "garble", "rekind", "badraw"}
        ELSE {"unraw", "values1", "values2", "few", "many", "garble", "rekind", "badraw"}

RecordEdit(old, kind) ==
    LET text == TextOf(old)
        head == HeadTokens(text)
        lay == DecLayout(PyIntHex(head[1]).v % 128)
        vals(n) == [i \in 1..Len(lay) |-> ParamText(lay[i].t, n)]
    IN  CASE kind = "unraw" -> text
          [] kind = "values1" -> JoinSp(head \o vals(1))
          [] kind = "values2" -> JoinSp(head \o vals(2))
          [] kind = "few" -> JoinSp(head \o SubSeq(vals(1), 1, Len(lay) - 1))
          [] kind = "many" -> JoinSp(head \o vals(1) \o <<(<<"1">>)>>)
          [] kind = "garble" -> <<"Z","Z"," ","?"," ","1"," ","x"," ">> \o RawOf(old)
          [] kind = "rekind" ->
               <<"0","1"," ","L","i","n","e"," ","S","p","e","e","d"," ","9"," ","9"," ">>
               \o RawOf(old)
          [] kind = "badraw" -> SubSeq(old, 1, Len(old) - 2)

\* The records whose lines the user edits: the first two.
EditedRecords == {1, 2}

\* The fields whose lines the user edits, as positions in sysmem_field_map,
\* and the texts the user gives them.
FieldTexts(name) ==
    CASE name = <<"P","r","o","g","r","a","m","S","i","z","e">> ->
            {<<"9">>, <<"-","2">>, <<"x">>}
      [] name = <<"X","Y","M","o","v","e","S","p","e","e","d">> ->
            {<<"1",".","5">>, <<"-","0",".","1","2","5">>}
      [] name = <<"R","u","n","C","o","u","n","t","e","r">> -> {<<"5">>}
      [] name = NmQuickStep -> {StrTrue, StrFalse}
      [] name = NmRunningHomeFirst -> {StrTrue, StrFalse}
      [] name = NmEmergencyMode -> {StrMaintaining, StrInitial}
      [] name = <<"P","r","o","g","r","a","m","L","a","b","e","l">> -> {<<"X","Y">>, <<>>}
      [] name \in {<<"O","1">>, <<"O","4">>} -> {StrFalse}
      [] name \in {<<"O","2">>, <<"O","8">>} -> {StrTrue}
      [] OTHER -> {}

\* f"{field}: {value}" without a raw capture
FieldEdit(name, value) == name \o <<":"," ">> \o value

\* The position, in the decoded text of an input with n records, of the
\* line of the k-th entry of sysmem_field_map: the count comment, n record
\* lines and the header come first (the O lines follow the plain ones).
FieldPos(n, k) == n + 2 + k

\* ---- actions --------------------------------------------------------------
Init ==
    /\ infile \in Inputs
    /\ textfile = <<>>
    /\ outfile = <<>>
    /\ pc = "start"
    /\ edits = {}
    /\ opened = {}

\* decode_file(infile, textfile)
Decode ==
    /\ pc = "start"
    /\ \E r \in {DecodeFile(infile)} :
           /\ pc' = IF r.ok THEN "decoded" ELSE "decode_failed"
           /\ textfile' = r.v
           /\ opened' = IF r.opened THEN opened \cup {"text"} ELSE opened
    /\ UNCHANGED <<infile, outfile, edits>>

\* The user rewrites the line of record i.
EditRecord ==
    /\ pc = "decoded"
    /\ Cardinality(edits) < MaxEdits
    /\ \E i \in EditedRecords \cap 1..NRecs(infile) :
       \E kind \in RecordEditKinds(textfile[i + 1]) :
          /\ \A e \in edits : e.line # i + 1
          /\ textfile' = [textfile EXCEPT ![i + 1] = RecordEdit(textfile[i + 1], kind)]
          /\ edits' = edits \cup {[what |-> "record", line |-> i + 1, kind |-> kind,
                                   name |-> <<>>, value |-> <<>>]}
    /\ UNCHANGED <<infile, outfile, pc, opened>>

\* The user rewrites the line of the k-th registered field; on the lines
\* of ProgramSize, ProgramLabel and O2 the user may also put a blank line
\* in front of the rewritten line (what is then "field_after_blank").
EditField ==
    /\ pc = "decoded"
    /\ Cardinality(edits) < MaxEdits
    /\ \E k \in 1..Len(sysmem_field_map) :
          LET fd == sysmem_field_map[k]
              pos == FieldPos(NRecs(infile), k)
          IN  \E value \in FieldTexts(fd.name) :
              \E blank \in IF fd.name \in {NmProgramSize, <<"O","2">>,
                                           <<"P","r","o","g","r","a","m","L","a","b","e","l">>}
                          THEN BOOLEAN ELSE {FALSE} :
                /\ \A e \in edits : e.line # pos
                /\ textfile' = [textfile EXCEPT ![pos] =
                                    (IF blank THEN <<"\n">> ELSE <<>>)
                                    \o FieldEdit(fd.name, value)]
                /\ edits' = edits \cup
                      {[what |-> IF blank THEN "field_after_blank" ELSE "field",
                        line |-> pos, kind |-> "value", name |-> fd.name, value |-> value]}
    /\ UNCHANGED <<infile, outfile, pc, opened>>

\* The user damages the raw dump: "nomarker" rewrites its header line,
\* "short" deletes its last line of 20 bytes.
EditDump ==
    /\ pc = "decoded"
    /\ Cardinality(edits) < MaxEdits
    /\ \E kind \in {"nomarker", "short"} :
          LET pos == IF kind = "short" THEN Len(textfile) ELSE IndexOfUnmapped(textfile)
          IN  /\ \A e \in edits : e.line # pos
              /\ textfile' = [textfile EXCEPT ![pos] =
                                  IF kind = "short" THEN <<>>
                                  ELSE <<"=","=","=","=","="," ","r","a","w"," ",
                                         "=","=","=","=","=">>]
              /\ edits' = edits \cup {[what |-> "dump", line |-> pos, kind |-> kind,
                                       name |-> <<>>, value |-> <<>>]}
    /\ UNCHANGED <<infile, outfile, pc, opened>>

\* encode_file(textfile, outfile)
Encode ==
    /\ pc = "decoded"
    /\ \E r \in {EncodeFile(textfile)} :
           /\ pc' = IF r.ok THEN "encoded" ELSE "encode_failed"
           /\ outfile' = r.v
           /\ opened' = IF r.opened THEN opened \cup {"out"} ELSE opened
    /\ UNCHANGED <<infile, textfile, edits>>

Next == Decode \/ EditRecord \/ EditField \/ EditDump \/ Encode

Spec == Init /\ [][Next]_vars

(***************************************************************************)
(* _pack_record_from_text on its own                                       *)
(***************************************************************************)
\* Most parameter tokens of a line.
MaxParams == 7

\* What stands before the parameters of a line: hex tokens of registered
\* and unregistered kinds, with and without the top bit, and first tokens
\* that are not two hex digits.
PackHeads == {
    <<"0","1"," ","L","i","n","e"," ","S","p","e","e","d">>,
    <<"8","1"," ","L","i","n","e"," ","S","p","e","e","d">>,
    <<"1","C"," ","B","r","u","s","h"," ","A","r","e","a">>,
    <<"0","D"," ","S","t","e","p"," ","&"," ","R","e","p","e","a","t"," ","X">>,
    <<"1","5"," ","L","i","n","e"," ","D","i","s","p","e","n","s","e"," ","S","e","t","u","p">>,
    <<"1","B"," ","G","o","t","o"," ","A","d","d","r","e","s","s">>,
    <<"4","D"," ","U","N","K","N","O","W","N","_","7","7">>,
    <<"F","F"," ","P","a","d","d","i","n","g">>,
    <<"f","f"," ","x">>,
    <<"0","1">>,
    <<"+","A"," ","F","o","o">>,
    <<"-","1"," ","F","o","o">>,
    <<"-","0"," ","F","o","o">>,
    <<"F"," ","F","o","o">>,
    <<"0","F","F"," ","F","o","o">>,
    <<"G","G"," ","F","o","o">>,
    <<"0","x"," ","F","o","o">> }

\* The n parameter texts of variant v: the texts ParamText has for the
\* fields of the kind, "1" beyond them; variant 3 is "40000" throughout.
PackParams(head, n, v) ==
    LET tok == SplitWs(head)[1]
        kind == PyIntHex(tok)
        lay == IF kind.ok THEN DecLayout(kind.v % 128) ELSE <<>>
    IN  [i \in 1..n |->
            IF v = 3 THEN <<"4","0","0","0","0">>
            ELSE IF i <= Len(lay) THEN ParamText(lay[i].t, v) ELSE <<"1">>]

PackLines ==
    {JoinSp(<<head>> \o PackParams(head, n, v)) :
        head \in PackHeads, n \in 0..MaxParams, v \in 1..3}

InitPack ==
    /\ infile = <<>>
    /\ textfile \in {<<ln>> : ln \in PackLines}
    /\ outfile = <<>>
    /\ pc = "line"
    /\ edits = {}
    /\ opened = {}

\* _pack_record_from_text(line, line) for a line without a raw capture
Pack ==
    /\ pc = "line"
    /\ \E r \in {PackRecordFromText(textfile[1])} :
           /\ pc' = IF r.ok THEN "packed" ELSE "pack_failed"
           /\ outfile' = r.v
    /\ UNCHANGED <<infile, textfile, edits, opened>>

SpecPack == InitPack /\ [][Pack]_vars

(***************************************************************************)
(* One record with scaled fields: decoded, its capture removed, packed     *)
(***************************************************************************)
\* The kinds with a scaled field (x100: 13, 32, 37, 66; x1000: 21), with
\* and without the top bit of the discriminant.
ScaledKinds == {13, 32, 37, 66, 21, 128 + 13, 128 + 21}

\* Stored values of the field under test: both ends of the int16 range,
\* multiples and non-multiples of the scales, either sign.
ScaleValues ==
    {-32768, -32767, -12345, -1000, -251, -250, -100, -1, 0, 1, 5, 99, 100,
     250, 251, 1000, 4095, 32767}

\* The positions in the layout of a kind that hold a scaled field.
ScaledFields(cmd_id) ==
    {k \in 1..Len(DecLayout(cmd_id)) : DecLayout(cmd_id)[k].t \in {"h100", "h1000"}}

\* A record of the given discriminant whose k-th displayed field stores s;
\* every other field holds a finite value (1.5 in a float, 7 in an int16,
\* 3 in a byte) when fill is set and 0 otherwise.
ScaleRecord(byte15, k, s, fill) ==
    LET Bytes(t) == IF t = "f" THEN F32Of(1500)
                    ELSE IF t \in {"b", "b1"} THEN <<3>> ELSE <<7, 0>>
        Filled(lay) ==
            [i \in 1..16 |->
                IF i = 16 THEN byte15
                ELSE IF fill /\ \E j \in 1..Len(lay) :
                                    i > lay[j].o /\ i <= lay[j].o + Len(Bytes(lay[j].t))
                THEN LET j == CHOOSE j \in 1..Len(lay) :
                                  i > lay[j].o /\ i <= lay[j].o + Len(Bytes(lay[j].t))
                     IN  Bytes(lay[j].t)[i - lay[j].o]
                ELSE 0]
        Stored(lay) == WriteAt(Filled(lay), lay[k].o, I16Of(s))
    IN  Stored(DecLayout(byte15 % 128))

ScaleRecords ==
    UNION {{ScaleRecord(b, k, s, fill) :
               k \in ScaledFields(b % 128), s \in ScaleValues, fill \in BOOLEAN} :
           b \in ScaledKinds}

InitScale ==
    /\ infile \in ScaleRecords
    /\ textfile = <<>>
    /\ outfile = <<>>
    /\ pc = "record"
    /\ edits = {}
    /\ opened = {}

\* The line decode_command_records appends for the record.
ShowRecord ==
    /\ pc = "record"
    /\ \E r \in {DecodeRecord(infile)} :
           /\ pc' = IF r.ok THEN "shown" ELSE "show_failed"
           /\ textfile' = IF r.ok THEN <<r.v>> ELSE <<>>
    /\ UNCHANGED <<infile, outfile, edits, opened>>

\* The user removes the raw capture of the line and keeps its text.
RemoveCapture ==
    /\ pc = "shown"
    /\ textfile' = <<TextOf(textfile[1])>>
    /\ pc' = "line"
    /\ UNCHANGED <<infile, outfile, edits, opened>>

SpecScale == InitScale /\ [][ShowRecord \/ RemoveCapture \/ Pack]_vars
(***************************************************************************)
(* Properties                                                              *)
(***************************************************************************)
\* len(data) = 400 + 16 * N and at least 500
WellSized(data) == Len(data) >= 500 /\ (Len(data) - 400) % 16 = 0

\* The record region without the bytes that fill no whole record.
RecordsOf(data) == SubSeq(data, 1, 16 * NRecs(data))

\* The 16-bit word at offset 83 and the int32 at offset 207 of the SysMem
\* block of a file.
FlagWord(data) == U16Unpack(Slice(SysmemOf(data), 83, 2))
StoredSize(data) == I32Unpack(Slice(SysmemOf(data), 207, 4))

\* The value shown on the ProgramSize line of the text.
ShownSize == ValuePart(TextOf(textfile[FieldPos(NRecs(infile), 1)]))

\* C1: for an input of 400 + 16 * N bytes (at least 500), decode and then
\* encode of the unedited text both succeed and write exactly the input.
C1_RoundTripIdentity ==
    (WellSized(infile) /\ edits = {}) =>
        /\ pc \notin {"decode_failed", "encode_failed"}
        /\ pc = "encoded" => outfile = infile

\* C2: when the only edit is one flag line O1..O8, the flag word written
\* has that bit as the text says and every other bit as in the raw dump.
C2_BitAggregation ==
    \A e \in edits :
        (pc = "encoded" /\ edits = {e} /\ e.what = "field" /\ FieldOf(e.name).dtype = "bit") =>
            \A i \in 0..15 :
                BitOf(FlagWord(outfile), i) =
                    IF i = FieldOf(e.name).bit
                    THEN (IF BitValue(e.value) THEN 1 ELSE 0)
                    ELSE BitOf(FlagWord(infile), i)

\* C3: when the only edit is one registered field line, every SysMem byte
\* outside that field's byte range is as in the raw dump and the record
\* bytes are unchanged.
C3_MetadataEditIsolation ==
    \A e \in edits :
        (pc = "encoded" /\ edits = {e} /\ e.what = "field") =>
            LET fd == FieldOf(e.name)
            IN  /\ \A j \in 0..399 :
                      (j < fd.off \/ j >= fd.off + fd.n) =>
                          SysmemOf(outfile)[j + 1] = SysmemOf(infile)[j + 1]
                /\ Body(outfile) = RecordsOf(infile)

\* C4: when the only edit gives one record line valid new parameters, the
\* output is as long as the input and equal to it outside that record.
C4_RecordEditIsolation ==
    \A e \in edits :
        (pc = "encoded" /\ edits = {e} /\ e.what = "record"
            /\ e.kind \in {"values1", "values2"}) =>
            /\ Len(outfile) = Len(infile)
            /\ \A j \in 1..Len(infile) :
                  (j <= 16 * (e.line - 2) \/ j > 16 * (e.line - 1)) =>
                      outfile[j] = infile[j]

\* C5: an input shorter than 500 bytes or not of 400 + 16 * N bytes is
\* rejected by decode, which writes no text.
C5_InputSizeRejected ==
    ~WellSized(infile) => (pc \in {"start", "decode_failed"} /\ textfile = <<>>)

\* C6: a line without a raw capture is packed only if it has as many
\* numeric parameter tokens as its kind has fields.
C6_ParameterCountChecked ==
    pc = "packed" =>
        LET tokens == SplitWs(textfile[1])
        IN  Len(ParamTokens(Tail(tokens))) = Len(DecLayout(PyIntHex(tokens[1]).v % 128))

\* C7: a line without a raw capture is packed only if it has at least two
\* tokens and the first consists of exactly two hexadecimal digits.
C7_LeadingTokenChecked ==
    pc = "packed" =>
        LET tokens == SplitWs(textfile[1])
        IN  Len(tokens) >= 2 /\ Len(tokens[1]) = 2 /\ AllHex(tokens[1])

\* C8: every record line that carries the raw capture of its record
\* contributes exactly the bytes of that capture, whatever stands before it.
C8_RawCaptureVerbatim ==
    pc = "encoded" =>
        \A i \in 1..NRecs(infile) :
            LET ln == textfile[i + 1]
            IN  (Contains(ln, RawMark)
                    /\ Strip(AfterFirst(ln, RawMark)) = HexOf(RecAt(infile, i))) =>
                    RecAt(outfile, i) = RecAt(infile, i)

C8_Witness ==
    /\ pc = "encoded"
    /\ \E e \in edits : e.what = "record" /\ e.kind = "rekind" /\ e.line = 2
    /\ RecAt(outfile, 1) = RecAt(infile, 1)
    /\ RecAt(infile, 1)[16] # 1

\* The value decode shows for a field that packed the parsed parameter x:
\* x itself for a float or scaled field, int(x) for the others.
ShownOf(t, x) == IF t \in {"h", "b", "b1"} THEN 1000 * PyToInt(x).v ELSE x.m

\* C9: byte 15 of a packed record is the value of the leading hex token,
\* and the record read with the layout decode has for the low 7 bits of
\* that token shows the parameters given, in order, every other byte
\* being zero.
C9_DiscriminantConsistent ==
    pc = "packed" =>
        LET tokens == SplitWs(textfile[1])
            byte15 == PyIntHex(tokens[1]).v
            lay == DecLayout(byte15 % 128)
            params == ParamTokens(Tail(tokens))
            Width(t) == IF t = "f" THEN 4 ELSE IF t \in {"b", "b1"} THEN 1 ELSE 2
        IN  /\ Len(outfile) = 16
            /\ outfile[16] = byte15
            /\ byte15 # 255 =>
                 /\ Len(params) >= Len(lay)
                 /\ \A i \in 1..Len(lay) :
                       LET x == ReadField(outfile, lay[i])
                       IN  x.k = "fin" /\ x.m = ShownOf(lay[i].t, ParseParam(params[i]).v)
            /\ \A j \in 0..14 :
                  (byte15 = 255 \/ \A i \in 1..Len(lay) :
                        j < lay[i].o \/ j >= lay[i].o + Width(lay[i].t)) =>
                      outfile[j + 1] = 0

C9_Witness ==
    /\ pc = "packed"
    /\ outfile[16] = 129
    /\ ReadField(outfile, DecLayout(1)[1]).m = 1500
    /\ outfile[15] = 3

\* C10 as stated: the ProgramSize shown is the stored int32 plus 1, and an
\* edited ProgramSize line stores the shown value minus 1.
C10_ProgramSizePlusOne ==
    /\ (pc = "decoded" /\ edits = {}) => ShownSize = DecStr(StoredSize(infile) + 1)
    /\ \A e \in edits :
          (pc = "encoded" /\ e.what = "field" /\ e.name = NmProgramSize) =>
              StoredSize(outfile) = PyInt(e.value).v - 1

\* C10: the ProgramSize shown is the stored int32 minus 1, and an edited
\* ProgramSize line stores the shown value plus 1.
C10_ProgramSizeMinusOne ==
    /\ (pc = "decoded" /\ edits = {}) => ShownSize = DecStr(StoredSize(infile) - 1)
    /\ \A e \in edits :
          (pc = "encoded" /\ e.what = "field" /\ e.name = NmProgramSize) =>
              StoredSize(outfile) = PyInt(e.value).v + 1

C10_Witness ==
    /\ pc = "encoded"
    /\ \E e \in edits : e.what = "field" /\ e.name = NmProgramSize /\ e.value = <<"9">>
    /\ StoredSize(infile) = 5
    /\ StoredSize(outfile) = 10


\* The parameter tokens of the only line of the text file.
ShownParams == ParamTokens(Tail(SplitWs(textfile[1])))

\* The int16 stored at the k-th displayed field of the record rec.
StoredAt(rec, k) == I16Unpack(Slice(rec, DecLayout(rec[16] % 128)[k].o, 2))

\* The scale of the k-th displayed field of the record rec.
ScaleAt(rec, k) == IF DecLayout(rec[16] % 128)[k].t = "h100" THEN 100 ELSE 1000

\* C11: every record with a scaled field (x100 in kinds 13, 32, 37, 66,
\* x1000 in kind 21) is displayed, never refused; the text displayed for a
\* scaled field storing s denotes s divided by the scale (stored 250 in a
\* x100 field is displayed as 2.5); and packing the displayed text, raw
\* capture removed, succeeds and stores s in that field again.
C11_ScaleRoundTrip ==
    /\ pc \notin {"show_failed", "pack_failed"}
    /\ pc \in {"shown", "line"} =>
          \A k \in ScaledFields(infile[16] % 128) :
             /\ PyFloat(ShownParams[k]).ok
             /\ PyFloat(ShownParams[k]).v.m * ScaleAt(infile, k) = 1000 * StoredAt(infile, k)
             /\ (StoredAt(infile, k) = 250 /\ ScaleAt(infile, k) = 100)
                   => ShownParams[k] = <<"2", ".", "5">>
    /\ pc = "packed" =>
          \A k \in ScaledFields(infile[16] % 128) : StoredAt(outfile, k) = StoredAt(infile, k)

C11_Witness ==
    /\ pc = "packed"
    /\ infile[16] = 13
    /\ StoredAt(infile, 1) = 250
    /\ ShownParams[1] = <<"2", ".", "5">>
    /\ StoredAt(outfile, 1) = 250

\* C12: a conversion that fails has not opened its output file and has
\* written nothing, whatever made it fail (decode: an input shorter than
\* 500 bytes, a record it cannot display; encode: a line it cannot pack, a
\* raw capture that is not 16 bytes, no unmapped-raw header, fewer than 400
\* dump bytes, an edited field value it cannot encode).  An output file is
\* opened only by a conversion that has produced every record and the
\* whole 400-byte block, and it then holds all of them.
C12_NoPartialOutput ==
    /\ pc = "decode_failed" => (opened = {} /\ textfile = <<>>)
    /\ pc = "encode_failed" => ("out" \notin opened /\ outfile = <<>>)
    /\ "text" \in opened =>
          /\ pc \notin {"start", "decode_failed"}
          /\ Len(textfile) = NRecs(infile) + 54
    /\ "out" \in opened =>
          /\ pc = "encoded"
          /\ Len(outfile) >= 400
          /\ Len(Body(outfile)) % 16 = 0

\* An encode that failed on a text whose dump header was rewritten, after
\* a decode that wrote its text.
C12_Witness ==
    /\ pc = "encode_failed"
    /\ \E e \in edits : e.kind = "nomarker"
    /\ opened = {"text"}
    /\ outfile = <<>>

\* The byte stored at the offset of the int8 field called name.
StoredByte(data, name) == SysmemOf(data)[FieldOf(name).off + 1]

\* C13: for QuickStep, RunningHomeFirst and EmergencyMode and a stored byte
\* of 0 or 1, when the only edit removes the raw capture of the field's
\* line and keeps the value decode displayed, encode writes the stored byte
\* back.
C13_BooleanTransformsInverse ==
    \A e \in edits :
        (/\ pc = "encoded"
         /\ edits = {e}
         /\ e.what = "field"
         /\ e.name \in {NmQuickStep, NmRunningHomeFirst, NmEmergencyMode}
         /\ StoredByte(infile, e.name) \in {0, 1}
         /\ e.value = FieldValueStr(SysmemOf(infile), FieldOf(e.name)))
            => StoredByte(outfile, e.name) = StoredByte(infile, e.name)

\* C14: when the only edit is one registered field line without a raw
\* capture, standing between the decoded-fields header and the unmapped-raw
\* header with or without a blank line in front of it, the bytes of the
\* field's range in the output are the encoding of the value on that line
\* (for a flag line: the word collected from that line).
C14_OverlaidFieldsFreshlyEncoded ==
    \A e \in edits :
        (pc = "encoded" /\ edits = {e} /\ e.what \in {"field", "field_after_blank"}) =>
            LET fd == FieldOf(e.name)
            IN  Slice(SysmemOf(outfile), fd.off, fd.n) =
                    IF fd.dtype = "bit"
                    THEN U16Pack(IF BitValue(e.value) THEN Pow2(fd.bit) ELSE 0).v
                    ELSE EncodeFieldValue(fd, e.value).v
=============================================================================
